---- MODULE Spec2Model ----
(***************************************************************************)
(* A model of lbsolve: the Letter Boxed solver.                            *)
(*                                                                         *)
(*   game_dictionary.py  Word, WordSequence, GameDictionary                *)
(*   solution_finder.py  PartialSolution, PartialSolutionMap,              *)
(*                       SolutionList, SolutionFinder                      *)
(*                                                                         *)
(* A letter is a one-character string, a word a non-empty tuple of         *)
(* letters, a Python list a tuple, and a Python dict (which keeps the      *)
(* order in which its keys were inserted) a tuple of [key, val] records.   *)
(***************************************************************************)
EXTENDS Integers, Sequences, FiniteSets, TLC

(***************************************************************************)
(* Bounds of the model.                                                    *)
(***************************************************************************)
\* the longest word file GameDictionary.create reads
MaxFileLen == 3
\* the largest max_depth a SolutionFinder is constructed with
MaxDepthOption == 2
\* the number of caller threads that read results
NumReaders == 1
\* the most calls of SolutionList.insert made on a SolutionList by hand
MaxInserts == 4
\* the most candidates in a collection handed to _promote_candidates by hand
MaxOffered == 3
\* the most calls of PartialSolutionMap.insert made on a map by hand
MaxMapInserts == 2
\* the most candidates in a collection handed to PartialSolutionMap.merge
MaxMerged == 3

\* the most words in a PartialSolution clone_and_extend is called on
MaxSequence == 2

\* the most calls of _mutate_solution_candidates made on a finder by hand
MaxGenerations == 7

\* the most letters in a word given to word_is_valid directly
MaxWordLen == 3

\* depth is a Python int and never overflows; only "depth >= max_depth" reads
\* it, so the model stops counting at a value no configured max_depth and no
\* converging search reaches.
DepthCap == MaxFileLen + MaxDepthOption + 1

(***************************************************************************)
(* Words and boxes the inputs are drawn from.                              *)
(***************************************************************************)
Aba == <<"a", "b", "a">>
Adad == <<"a", "d", "a", "d">>
Dcd == <<"d", "c", "d">>
Abcd == <<"a", "b", "c", "d">>
Acb == <<"a", "c", "b">>

WordUniverse == {Aba, Adad, Dcd, Abcd, Acb}

\* two sides of two letters each
BoxPlain == << <<"a", "c">>, <<"b", "d">> >>
\* the letter b is on both sides
BoxDup == << <<"a", "b">>, <<"b", "c">> >>

Boxes == {BoxPlain, BoxDup}

RECURSIVE SeqsUpTo(_, _)
SeqsUpTo(S, n) ==
    IF n = 0 THEN {<<>>}
    ELSE LET shorter == SeqsUpTo(S, n - 1)
         IN shorter \cup {Append(s, x) : s \in shorter, x \in S}

\* the word files: every sequence of at most MaxFileLen lines
WordFiles == SeqsUpTo(WordUniverse, MaxFileLen)

(***************************************************************************)
(* Python lists and dicts.                                                 *)
(***************************************************************************)
\* a Python for loop that carries a value along: Body(acc, x) for each x of the
\* list in turn, from position i on. The value of each round is worked out
\* once, as a, before the next round begins.
RECURSIVE ForFrom(_, _, _, _)
ForFrom(Body(_, _), acc, list, i) ==
    IF i > Len(list) THEN acc
    ELSE CHOOSE result \in {ForFrom(Body, a, list, i + 1) : a \in {Body(acc, list[i])}} :
            TRUE

\* the list is worked out once, as l, before the loop begins
ForEach(Body(_, _), acc, list) ==
    CHOOSE result \in {ForFrom(Body, acc, l, 1) : l \in {list}} : TRUE

Concat(a, b) == a \o b

\* [x for list in lists for x in list]
Flatten(lists) == ForEach(Concat, <<>>, lists)

HasKey(d, k) == \E i \in DOMAIN d : d[i].key = k

KeyIndex(d, k) == CHOOSE i \in DOMAIN d : d[i].key = k

\* d.get(k, default)
DictGet(d, k, default) == IF HasKey(d, k) THEN d[KeyIndex(d, k)].val ELSE default

\* d[k] = v: a new key goes to the end, an old key keeps its place
DictSet(d, k, v) ==
    IF HasKey(d, k) THEN [d EXCEPT ![KeyIndex(d, k)].val = v]
    ELSE Append(d, [key |-> k, val |-> v])

DictValues(d) == [i \in DOMAIN d |-> d[i].val]

Range(list) == {list[i] : i \in DOMAIN list}

\* x in list, by ==
InList(list, x) == \E i \in DOMAIN list : list[i] = x

(***************************************************************************)
(* Python values given as keys to __getitem__                              *)
(***************************************************************************)
PyStr(s) == [type |-> "str", s |-> s, n |-> 0, items |-> <<>>]

PyInt(n) == [type |-> "int", s |-> "", n |-> n, items |-> <<>>]

\* a float that equals no int, such as 2.3
PyFloat == [type |-> "float", s |-> "", n |-> 0, items |-> <<>>]

PyTuple(items) == [type |-> "tuple", s |-> "", n |-> 0, items |-> items]

\* isinstance(value, Letter)
IsLetter(value) == value.type = "str"

\* isinstance(value, UniqueCount)
IsUniqueCount(value) == value.type = "int"

\* isinstance(value, WordCount)
IsWordCount(value) == value.type = "int"

\* isinstance(value, tuple)
IsTuple(value) == value.type = "tuple"

\* a call that returned ret
Returned(ret) == [raised |-> FALSE, error |-> "", ret |-> <<ret>>]

\* a call that raised error
Raised(error) == [raised |-> TRUE, error |-> error, ret |-> <<>>]

\* the exception classes that are LookupError or derive from it
LookupErrors == {"LookupError", "KeyError", "IndexError"}

(***************************************************************************)
(* game_dictionary.py                                                      *)
(***************************************************************************)
MIN_LETTERS_IN_WORD == 3

first_letter(word) == word[1]

last_letter(word) == word[Len(word)]

unique_letters(word) == {word[i] : i \in DOMAIN word}

\* letter in letter_group, a tuple
InGroup(letter, letter_group) == \E i \in DOMAIN letter_group : letter_group[i] = letter

\* GameDictionary.get_letter_candidates: the letters of the sides that do not
\* hold current_letter, side after side; "" is on no side.
get_letter_candidates(letter_groups, current_letter) ==
    LET \* lines 146-148
        Extend(candidates, letter_group) ==
            IF InGroup(current_letter, letter_group) THEN candidates
            ELSE candidates \o letter_group
    IN ForEach(Extend, <<>>, letter_groups)

\* GameDictionary.word_is_valid
word_is_valid(letter_groups, word) ==
    /\ Len(word) >= MIN_LETTERS_IN_WORD
    /\ InList(get_letter_candidates(letter_groups, ""), word[1])
    /\ \A i \in 2..Len(word) :
          InList(get_letter_candidates(letter_groups, word[i - 1]), word[i])

\* GameDictionary._add_word_to_words_by_first_letter
add_word_to_words_by_first_letter(words_by_first_letter, word) ==
    LET first_letter_group == DictGet(words_by_first_letter, first_letter(word), <<>>)
        uniques_group == DictGet(first_letter_group, unique_letters(word), <<>>)
    IN DictSet(words_by_first_letter, first_letter(word),
               DictSet(first_letter_group, unique_letters(word),
                       Append(uniques_group, word)))

\* GameDictionary._add_word_to_words_by_uniques
add_word_to_words_by_uniques(words_by_uniques, word) ==
    LET n == Cardinality(unique_letters(word))
        uniques_group == DictGet(words_by_uniques, n, <<>>)
        first_letter_group == DictGet(uniques_group, first_letter(word), <<>>)
    IN DictSet(words_by_uniques, n,
               DictSet(uniques_group, first_letter(word),
                       Append(first_letter_group, word)))

\* GameDictionary.__init__: the dictionary before create()
NewGameDictionary(letter_groups) ==
    [letter_groups |-> letter_groups,
     words_by_first_letter |-> <<>>,
     words_by_uniques |-> <<>>]

\* GameDictionary.create, lines 195-202: one line of the word file; an
\* invalid word is skipped
CreateLine(gd, word) ==
    IF ~word_is_valid(gd.letter_groups, word) THEN gd
    ELSE [gd EXCEPT
            !.words_by_first_letter = add_word_to_words_by_first_letter(@, word),
            !.words_by_uniques = add_word_to_words_by_uniques(@, word)]

\* GameDictionary.create
create(gd, word_list) == ForEach(CreateLine, gd, word_list)

\* GameDictionary.ordered_by_first_letter
ordered_by_first_letter(gd) ==
    Flatten([i \in DOMAIN gd.words_by_first_letter |->
                Flatten(DictValues(gd.words_by_first_letter[i].val))])

\* GameDictionary.get_words_with_uniques
get_words_with_uniques(gd, lookup) ==
    Flatten(DictValues(DictGet(gd.words_by_uniques, lookup, <<>>)))

\* len(game_dictionary.get_letter_candidates())
NumGameLetters(gd) == Len(get_letter_candidates(gd.letter_groups, ""))

(***************************************************************************)
(* solution_finder.py: PartialSolution                                     *)
(***************************************************************************)
\* PartialSolution.__init__
PartialSolution(sequence) ==
    [sequence |-> sequence,
     last_letter |-> last_letter(sequence[Len(sequence)]),
     unique_letters |-> UNION {unique_letters(sequence[i]) : i \in DOMAIN sequence}]

\* PartialSolution.__eq__: the sequences are compared, nothing else
PartialSolutionEq(p, q) == p.sequence = q.sequence

\* candidate in list_of_partial_solutions
InCandidates(list, candidate) ==
    \E i \in DOMAIN list : PartialSolutionEq(list[i], candidate)

\* a test that lets every word through
CloneAndExtendNeverRaises(p, word) == FALSE

\* the test of PartialSolution.clone_and_extend that raises ValueError
CloneAndExtendRaises(p, word) ==
    p.last_letter /= "" /\ p.last_letter /= first_letter(word)

\* an extension that puts the word in front of the sequence
clone_and_prepend(p, word) == PartialSolution(<<word>> \o p.sequence)

\* PartialSolution.clone_and_extend, when it does not raise
clone_and_extend(p, word) == PartialSolution(Append(p.sequence, word))

(***************************************************************************)
(* solution_finder.py: PartialSolutionMap                                  *)
(***************************************************************************)
\* PartialSolutionMap.__init__
NewPartialSolutionMap ==
    [candidates_by_uniques_by_last_letter |-> <<>>,
     candidates_by_last_letter_by_uniques |-> <<>>,
     linear_candidates |-> <<>>,
     count |-> 0]

\* an insert that forgets the two grouped views
PSMInsertFlatOnly(m, candidate) ==
    [m EXCEPT !.linear_candidates = Append(@, candidate), !.count = @ + 1]

\* PartialSolutionMap.insert
PSMInsert(m, candidate) ==
    LET letter == candidate.last_letter
        n == Cardinality(candidate.unique_letters)
        solutions_by_uniques ==
            DictGet(m.candidates_by_uniques_by_last_letter, letter, <<>>)
        solutions_by_last_letter ==
            DictGet(m.candidates_by_last_letter_by_uniques, n, <<>>)
    IN [candidates_by_uniques_by_last_letter |->
            DictSet(m.candidates_by_uniques_by_last_letter, letter,
                    DictSet(solutions_by_uniques, n,
                            Append(DictGet(solutions_by_uniques, n, <<>>),
                                   candidate))),
        candidates_by_last_letter_by_uniques |->
            DictSet(m.candidates_by_last_letter_by_uniques, n,
                    DictSet(solutions_by_last_letter, letter,
                            Append(DictGet(solutions_by_last_letter, letter, <<>>),
                                   candidate))),
        linear_candidates |-> Append(m.linear_candidates, candidate),
        count |-> m.count + 1]

\* a merge that skips nothing
MergeSkipsNothing(linear_candidates, candidate) == FALSE

\* the test of PartialSolutionMap.merge that skips a candidate
MergeSkips(linear_candidates, candidate) == InCandidates(linear_candidates, candidate)

\* PartialSolutionMap.merge, lines 115-117
MergeOne(m, candidate) ==
    IF MergeSkips(m.linear_candidates, candidate) THEN m ELSE PSMInsert(m, candidate)

\* a merge that goes through the other collection from its end
PSMMergeBackwards(m, other) ==
    ForEach(MergeOne, m, [i \in 1..Len(other) |-> other[Len(other) - i + 1]])

\* a merge that forgets what the map held
PSMMergeReplacing(m, other) == ForEach(MergeOne, NewPartialSolutionMap, other)

\* PartialSolutionMap.merge
PSMMerge(m, other) == ForEach(MergeOne, m, other)

\* a lookup by letter that returns only the first group filed under the
\* letter, without flattening the groups of the other unique-letter counts
PSMGetByLetterFirstGroup(m, lookup) ==
    LET groups == DictValues(DictGet(m.candidates_by_uniques_by_last_letter, lookup, <<>>))
    IN IF groups = <<>> THEN <<>> ELSE groups[1]

\* PartialSolutionMap.__getitem__ with a Letter
PSMGetByLetter(m, lookup) ==
    Flatten(DictValues(DictGet(m.candidates_by_uniques_by_last_letter, lookup, <<>>)))

\* PartialSolutionMap.__getitem__ with a UniqueCount
PSMGetByUniques(m, lookup) ==
    Flatten(DictValues(DictGet(m.candidates_by_last_letter_by_uniques, lookup, <<>>)))

\* PartialSolutionMap.__getitem__ with a tuple (Letter, UniqueCount), line 146
PSMGetByLetterAndUniques(m, letter, uniques) ==
    DictGet(DictGet(m.candidates_by_uniques_by_last_letter, letter, <<>>), uniques, <<>>)

\* a lookup by count and letter that looks at the count only
PSMGetByUniquesOnly(m, uniques, letter) ==
    Flatten(DictValues(DictGet(m.candidates_by_last_letter_by_uniques, uniques, <<>>)))

\* PartialSolutionMap.__getitem__ with a tuple (UniqueCount, Letter), line 150
PSMGetByUniquesAndLetter(m, uniques, letter) ==
    DictGet(DictGet(m.candidates_by_last_letter_by_uniques, uniques, <<>>), letter, <<>>)

\* PartialSolutionMap.__getitem__ with any key: lookup[0] and lookup[1] raise
\* IndexError on a tuple that is too short, and are evaluated from left to
\* right with the short circuit of "and"
PSMGetItem(m, lookup) ==
    IF IsLetter(lookup) THEN Returned(PSMGetByLetter(m, lookup.s))
    ELSE IF IsUniqueCount(lookup) THEN Returned(PSMGetByUniques(m, lookup.n))
    ELSE IF ~IsTuple(lookup) THEN Raised("LookupError")
    ELSE IF Len(lookup.items) = 0 THEN Raised("IndexError")
    ELSE IF IsLetter(lookup.items[1])
    THEN IF Len(lookup.items) = 1 THEN Raised("IndexError")
         ELSE IF IsUniqueCount(lookup.items[2])
         THEN Returned(PSMGetByLetterAndUniques(m, lookup.items[1].s, lookup.items[2].n))
         ELSE Raised("LookupError")
    ELSE IF IsUniqueCount(lookup.items[1])
    THEN IF Len(lookup.items) = 1 THEN Raised("IndexError")
         ELSE IF IsLetter(lookup.items[2])
         THEN Returned(PSMGetByUniquesAndLetter(m, lookup.items[1].n, lookup.items[2].s))
         ELSE Raised("LookupError")
    ELSE Raised("LookupError")

\* PartialSolutionMap.__iter__
PSMIter(m) == m.linear_candidates

\* PartialSolutionMap.__len__
PSMLen(m) == m.count

(***************************************************************************)
(* solution_finder.py: SolutionList                                        *)
(***************************************************************************)
\* SolutionList.__init__
NewSolutionList == [solutions_by_words |-> <<>>, linear_solutions |-> <<>>, count |-> 0]

\* OrderedDict.move_to_end
MoveToEnd(d, k) ==
    LET i == KeyIndex(d, k)
    IN Append(SubSeq(d, 1, i - 1) \o SubSeq(d, i + 1, Len(d)), d[i])

\* sorted(keys)
RECURSIVE SortedSeq(_)
SortedSeq(S) ==
    IF S = {} THEN <<>>
    ELSE LET least == CHOOSE x \in S : \A y \in S : x <= y
         IN <<least>> \o SortedSeq(S \ {least})

\* an insert that leaves the keys in the order in which they were first seen
KeepKeyOrder(d, keys) == d

\* SolutionList.insert, lines 192-193
MoveAllToEnd(d, keys) == ForEach(MoveToEnd, d, keys)

\* an insert that keeps the new solution only
ReplaceBySolution(list, solution) == <<solution>>

\* an insert that puts the solution at the head of its group
PrependSolution(solutions_list, solution) == <<solution>> \o solutions_list

\* SolutionList.insert, line 195
AppendSolution(solutions_list, solution) == Append(solutions_list, solution)

\* SolutionList.insert, lines 188-195: the group of the solution's length,
\* created and moved into ascending key order when the length is new
SLInsertGroup(sl, solution) ==
    LET k == Len(solution.sequence)
        with_key == IF HasKey(sl.solutions_by_words, k) THEN sl.solutions_by_words
                    ELSE Append(sl.solutions_by_words, [key |-> k, val |-> <<>>])
        solutions_list == DictGet(with_key, k, <<>>)
        ordered == IF solutions_list = <<>>
                   THEN MoveAllToEnd(with_key,
                                     SortedSeq({with_key[i].key : i \in DOMAIN with_key}))
                   ELSE with_key
    IN [sl EXCEPT !.solutions_by_words = DictSet(ordered, k, AppendSolution(solutions_list, solution))]

\* an insert that keeps the flat list free of equal solutions
SLInsertLinearOnce(sl, solution) ==
    IF InCandidates(sl.linear_solutions, solution) THEN sl
    ELSE [sl EXCEPT !.linear_solutions = Append(@, solution)]

\* SolutionList.insert, line 196
SLInsertLinear(sl, solution) ==
    [sl EXCEPT !.linear_solutions = Append(@, solution)]

\* SolutionList.insert, line 197
SLInsertCount(sl) == [sl EXCEPT !.count = @ + 1]

\* SolutionList.insert
SLInsert(sl, solution) ==
    SLInsertCount(SLInsertLinear(SLInsertGroup(sl, solution), solution))

\* SolutionList.flatten
SLFlatten(sl) == sl.linear_solutions

\* SolutionList.__getitem__ with any key. The keys of solutions_by_words are
\* ints, so a key of another type is not among them (KeyError); a list is
\* indexed from 0 by an int (IndexError out of range) and by nothing else
\* (TypeError).
SLGetItem(sl, lookup) ==
    IF IsWordCount(lookup)
    THEN IF HasKey(sl.solutions_by_words, lookup.n)
         THEN Returned(DictGet(sl.solutions_by_words, lookup.n, <<>>))
         ELSE Raised("KeyError")
    ELSE IF ~IsTuple(lookup) THEN Raised("LookupError")
    ELSE IF Len(lookup.items) = 0 THEN Raised("IndexError")
    ELSE IF ~(lookup.items[1].type = "int" /\ HasKey(sl.solutions_by_words, lookup.items[1].n))
    THEN Raised("KeyError")
    ELSE IF Len(lookup.items) = 1 THEN Raised("IndexError")
    ELSE IF lookup.items[2].type /= "int" THEN Raised("TypeError")
    ELSE LET solutions_list == DictGet(sl.solutions_by_words, lookup.items[1].n, <<>>)
         IN IF lookup.items[2].n < Len(solutions_list)
            THEN Returned(solutions_list[lookup.items[2].n + 1])
            ELSE Raised("IndexError")

\* SolutionList.__contains__
SLContains(sl, item) == InCandidates(sl.linear_solutions, item)

\* SolutionList.__iter__
SLIter(sl) == Flatten(DictValues(sl.solutions_by_words))

\* SolutionList.__len__
SLLen(sl) == sl.count

(***************************************************************************)
(* solution_finder.py: SolutionFinder                                      *)
(***************************************************************************)
VARIABLES
    game_dictionary,      \* the GameDictionary given to __init__, after create()
    max_depth,            \* 0 stands for None (both are false in line 411)
    strategy,             \* the search routine that is run: the thread's target
                          \* (depth first) or _find_solutions_breadth_first
    solutions,            \* SolutionList
    solutions_lock,       \* who holds _solutions_lock
    thread_should_stop,   \* _thread_should_stop
    solution_candidates,  \* _solution_candidates
    pc,                   \* where the solver thread is
    depth,                \* local of _find_solutions_breadth_first
    have_solutions,       \* local of _find_solutions_breadth_first
    new_solutions_count,  \* local of _find_solutions_breadth_first
    printed,              \* what lines 409, 412 and 414 have printed
    new_candidates,       \* the map being promoted: new_candidates (line 377),
                          \* child_candidates (443), one_word_solutions (424)
    new_solutions,        \* local of _promote_candidates
    promote_idx,          \* position of the for loop of _promote_candidates
    ret_pc,               \* where _promote_candidates returns to
    loop,                 \* local of _find_solutions_depth_first
    number,               \* local of _find_solutions_depth_first
    word_idx,             \* position of the for loops over words (425, 442)
    rpc,                  \* where each reader is
    ret_val,              \* what get_solutions returned to each reader: <<>>
                          \* before the first call, then <<the SolutionList>>
    ret_count,            \* what solutions_count returned to each reader
    stop_pc,              \* where the caller of stop(join=True) is
    polled,               \* what main's loop read from _solution_candidates:
                          \* <<>> before the first read, then <<the length>>
    call                  \* the last direct call of a method of the data
                          \* classes: <<>> before the first, then <<the call
                          \* with its arguments and its outcome>>

config_vars == <<game_dictionary, max_depth, strategy>>

loop_vars == <<depth, have_solutions, new_solutions_count, printed>>

promote_vars == <<new_candidates, new_solutions, promote_idx, ret_pc>>

dfs_vars == <<loop, number, word_idx>>

main_vars == <<stop_pc, polled>>

reader_vars == <<rpc, ret_val, ret_count, stop_pc, polled, call>>

vars == <<game_dictionary, max_depth, strategy, solutions, solutions_lock,
          thread_should_stop, solution_candidates, pc, depth, have_solutions,
          new_solutions_count, printed, new_candidates, new_solutions,
          promote_idx, ret_pc, loop, number, word_idx, rpc, ret_val, ret_count,
          stop_pc, polled, call>>

Readers == 1..NumReaders

\* candidate = PartialSolution(WordSequence(word)); map.insert(candidate)
\* (lines 269-270, 426, 434-435)
InsertOneWord(m, word) == PSMInsert(m, PartialSolution(<<word>>))

\* SolutionFinder._seed_candidates
seed_candidates(gd) ==
    ForEach(InsertOneWord, NewPartialSolutionMap, ordered_by_first_letter(gd))

\* a choice of candidates that looks at all of them, whatever their last letter
AllCandidatesFor(m, new_word) == m.linear_candidates

\* the candidates _add_word_to_solution_candidates looks at (line 342)
CandidatesFor(m, new_word) == PSMGetByLetter(m, first_letter(new_word))

\* a test of line 344 that skips no candidate
WordNeverInSequence(new_word, sequence) == FALSE

\* the test of line 344 that skips a candidate
WordInSequence(new_word, sequence) == InList(sequence, new_word)

\* SolutionFinder._add_word_to_solution_candidates
add_word_to_solution_candidates(m, new_word) ==
    LET \* lines 344-347
        ExtendOne(new_solution_candidates, solution_candidate) ==
            IF WordInSequence(new_word, solution_candidate.sequence)
            THEN new_solution_candidates
            ELSE PSMInsert(new_solution_candidates,
                           clone_and_extend(solution_candidate, new_word))
    IN ForEach(ExtendOne, NewPartialSolutionMap, CandidatesFor(m, new_word))

\* whether _add_word_to_solution_candidates ends in the ValueError of line 47
AddWordRaises(m, new_word) ==
    \E candidates \in {CandidatesFor(m, new_word)} :
        \E i \in DOMAIN candidates :
            /\ ~WordInSequence(new_word, candidates[i].sequence)
            /\ CloneAndExtendRaises(candidates[i], new_word)

\* a loop over the words that leaves the last word out
MutateAllButLast(m, words) ==
    LET MutateOne(new, word) ==
            PSMMerge(new, add_word_to_solution_candidates(m, word).linear_candidates)
    IN ForEach(MutateOne, NewPartialSolutionMap, SubSeq(words, 1, Len(words) - 1))

\* SolutionFinder._mutate_solution_candidates, lines 377-386
MutateAll(m, words) ==
    LET \* lines 380-383
        MutateOne(new, word) ==
            PSMMerge(new, add_word_to_solution_candidates(m, word).linear_candidates)
    IN ForEach(MutateOne, NewPartialSolutionMap, words)

\* a test of _promote_candidates without lines 364-365: a complete candidate
\* is promoted whether or not it is a solution already
PromotableAgain(candidate, num_game_letters, sl) ==
    Cardinality(candidate.unique_letters) = num_game_letters

\* the test of _promote_candidates, lines 362-365: the candidate is promoted
Promotable(candidate, num_game_letters, sl) ==
    /\ Cardinality(candidate.unique_letters) = num_game_letters
    /\ ~SLContains(sl, candidate)

\* filter(lambda candidate: candidate not in new_solutions, candidates)
NotInNewSolutions(candidates, new) ==
    LET Keep(kept, candidate) ==
            IF InCandidates(new, candidate) THEN kept ELSE Append(kept, candidate)
    IN ForEach(Keep, <<>>, candidates)

\* the holders of _solutions_lock: no one, the solver thread, a reader's thread
Free == <<>>

SolverThread == <<"thread">>

ReaderThread(r) == <<"reader", r>>

\* a thread that is_alive reports alive after its target has returned
running_after_return == strategy = "depth_first" /\ pc /= "idle"

\* SolutionFinder.running: is_alive of _solver_thread, whose target is
\* _find_solutions_depth_first
running == strategy = "depth_first" /\ pc \notin {"idle", "done", "dead"}

\* start() has been called: the solver thread has left its initial state
Started == strategy = "depth_first" /\ pc /= "idle"

\* SolutionFinder.__init__: the fields that do not depend on the arguments,
\* with the positions of the thread and of the callers before any call
Constructed ==
    /\ solutions = NewSolutionList
    /\ solutions_lock = Free
    /\ thread_should_stop = FALSE
    /\ solution_candidates = NewPartialSolutionMap
    /\ pc = "idle"
    /\ depth = 0
    /\ have_solutions = FALSE
    /\ new_solutions_count = 0
    /\ printed = <<>>
    /\ new_candidates = NewPartialSolutionMap
    /\ new_solutions = <<>>
    /\ promote_idx = 1
    /\ ret_pc = ""
    /\ loop = 0
    /\ number = 0
    /\ word_idx = 1
    /\ rpc = [r \in Readers |-> "ready"]
    /\ ret_val = [r \in Readers |-> <<>>]
    /\ ret_count = [r \in Readers |-> -1]
    /\ stop_pc = "ready"
    /\ polled = <<>>
    /\ call = <<>>

Init ==
    /\ game_dictionary \in
          {create(NewGameDictionary(box), f) : box \in Boxes, f \in WordFiles}
    /\ max_depth \in 0..MaxDepthOption
    /\ strategy \in {"depth_first", "breadth_first"}
    /\ Constructed

\* a start() that may start the thread a second time once its target has
\* returned
StartAgain ==
    /\ pc \in {"idle", "done"}
    /\ strategy = "depth_first"
    /\ pc' = "dfs_begin"
    /\ UNCHANGED <<config_vars, solutions, solutions_lock, thread_should_stop,
                   solution_candidates, loop_vars, promote_vars, dfs_vars,
                   reader_vars>>

\* a start() that clears the stop flag as it starts the thread
StartClearsFlag ==
    /\ pc = "idle"
    /\ strategy = "depth_first"
    /\ pc' = "dfs_begin"
    /\ thread_should_stop' = FALSE
    /\ UNCHANGED <<config_vars, solutions, solutions_lock, solution_candidates,
                   loop_vars, promote_vars, dfs_vars, reader_vars>>

\* SolutionFinder.start: the Thread of __init__, whose target is
\* _find_solutions_depth_first, begins
Start ==
    /\ pc = "idle"
    /\ strategy = "depth_first"
    /\ pc' = "dfs_begin"
    /\ UNCHANGED <<config_vars, solutions, solutions_lock, thread_should_stop,
                   solution_candidates, loop_vars, promote_vars, dfs_vars,
                   reader_vars>>

\* _find_solutions_breadth_first is no thread's target: it runs when it is
\* called (tests/test_solution_finder.py, test__find_solutions_breadth_first)
FindSolutionsBreadthFirst ==
    /\ pc = "idle"
    /\ strategy = "breadth_first"
    /\ pc' = "bfs_seed"
    /\ UNCHANGED <<config_vars, solutions, solutions_lock, thread_should_stop,
                   solution_candidates, loop_vars, promote_vars, dfs_vars,
                   reader_vars>>

\* SolutionFinder.stop
Stop ==
    /\ thread_should_stop' = TRUE
    /\ UNCHANGED <<config_vars, solutions, solutions_lock, solution_candidates, pc,
                   loop_vars, promote_vars, dfs_vars, reader_vars>>

(***************************************************************************)
(* _promote_candidates and _add_new_solution, on the solver thread         *)
(***************************************************************************)
\* the next candidate, from position i on, that _promote_candidates promotes
\* (0 when there is none)
NextPromotable(list, i, num_game_letters, sl) ==
    LET hits == {j \in i..Len(list) : Promotable(list[j], num_game_letters, sl)}
    IN IF hits = {} THEN 0 ELSE CHOOSE j \in hits : \A k \in hits : j <= k

\* _promote_candidates, lines 361-366: up to the next promoted candidate
Promote ==
    /\ pc = "promote"
    /\ LET j == NextPromotable(new_candidates.linear_candidates, promote_idx,
                               NumGameLetters(game_dictionary), solutions)
       IN IF j = 0
          THEN /\ pc' = ret_pc
               /\ UNCHANGED <<new_solutions, promote_idx>>
          ELSE /\ new_solutions' = Append(new_solutions, new_candidates.linear_candidates[j])
               /\ promote_idx' = j
               /\ pc' = "add_new_solution"
    /\ UNCHANGED <<config_vars, solutions, solutions_lock, thread_should_stop,
                   solution_candidates, loop_vars, new_candidates, ret_pc, dfs_vars,
                   reader_vars>>

\* a lock any thread acquires at once, held or not
AcquireHeld(holder) == TRUE

\* Lock.acquire: the lock is free
CanAcquire(holder) == holder = Free

\* _add_new_solution, line 320: with self._solutions_lock
AddNewSolutionAcquire ==
    /\ pc = "add_new_solution"
    /\ CanAcquire(solutions_lock)
    /\ solutions_lock' = SolverThread
    /\ pc' = "insert_group"
    /\ UNCHANGED <<config_vars, solutions, thread_should_stop, solution_candidates,
                   loop_vars, promote_vars, dfs_vars, reader_vars>>

\* SolutionList.insert, lines 188-195, under the lock
InsertGroup ==
    /\ pc = "insert_group"
    /\ solutions' = SLInsertGroup(solutions, new_solutions[Len(new_solutions)])
    /\ pc' = "insert_linear"
    /\ UNCHANGED <<config_vars, solutions_lock, thread_should_stop,
                   solution_candidates, loop_vars, promote_vars, dfs_vars,
                   reader_vars>>

\* SolutionList.insert, line 196, under the lock
InsertLinear ==
    /\ pc = "insert_linear"
    /\ solutions' = SLInsertLinear(solutions, new_solutions[Len(new_solutions)])
    /\ pc' = "insert_count"
    /\ UNCHANGED <<config_vars, solutions_lock, thread_should_stop,
                   solution_candidates, loop_vars, promote_vars, dfs_vars,
                   reader_vars>>

\* SolutionList.insert, line 197, under the lock
InsertCount ==
    /\ pc = "insert_count"
    /\ solutions' = SLInsertCount(solutions)
    /\ pc' = "add_new_solution_release"
    /\ UNCHANGED <<config_vars, solutions_lock, thread_should_stop,
                   solution_candidates, loop_vars, promote_vars, dfs_vars,
                   reader_vars>>

\* _add_new_solution: the end of the with block; the for loop of
\* _promote_candidates goes on with the next candidate
AddNewSolutionRelease ==
    /\ pc = "add_new_solution_release"
    /\ solutions_lock' = Free
    /\ promote_idx' = promote_idx + 1
    /\ pc' = "promote"
    /\ UNCHANGED <<config_vars, solutions, thread_should_stop, solution_candidates,
                   loop_vars, new_candidates, new_solutions, ret_pc, dfs_vars,
                   reader_vars>>

(***************************************************************************)
(* _find_solutions_breadth_first                                           *)
(***************************************************************************)
\* the messages of lines 409, 412 and 414
NoMoreSolutions == "stopping search because no more solutions were found."

MaxDepthReached == "stopping search because max depth has been reached."

SearchEnded == "Search has ended."

\* lines 399-401
BfsSeed ==
    /\ pc = "bfs_seed"
    /\ solution_candidates' = seed_candidates(game_dictionary)
    /\ have_solutions' = FALSE
    /\ depth' = 0
    /\ pc' = "bfs_while"
    /\ UNCHANGED <<config_vars, solutions, solutions_lock, thread_should_stop,
                   new_solutions_count, printed, promote_vars, dfs_vars,
                   reader_vars>>

\* a test of line 402 that never consults the stop flag
LoopNeverConsultsFlag(should_stop) == TRUE

\* the test of the while loop, line 402
LoopGoesOn(should_stop) == ~should_stop

\* lines 402-403, and line 414 when the loop ends
BfsWhile ==
    /\ pc = "bfs_while"
    /\ IF LoopGoesOn(thread_should_stop)
       THEN /\ depth' = IF depth < DepthCap THEN depth + 1 ELSE depth
            /\ pc' = "bfs_mutate"
            /\ UNCHANGED printed
       ELSE /\ pc' = "done"
            /\ printed' = <<SearchEnded>>
            /\ UNCHANGED depth
    /\ UNCHANGED <<config_vars, solutions, solutions_lock, thread_should_stop,
                   solution_candidates, have_solutions, new_solutions_count,
                   promote_vars, dfs_vars, reader_vars>>

\* _mutate_solution_candidates, lines 377-387: the new candidates of every
\* word, then the call of _promote_candidates
BfsMutate ==
    /\ pc = "bfs_mutate"
    /\ LET words == ordered_by_first_letter(game_dictionary)
       IN IF \E word \in Range(words) : AddWordRaises(solution_candidates, word)
          THEN /\ pc' = "dead"
               /\ UNCHANGED promote_vars
          ELSE /\ new_candidates' = MutateAll(solution_candidates, words)
               /\ new_solutions' = <<>>
               /\ promote_idx' = 1
               /\ ret_pc' = "bfs_merge"
               /\ pc' = "promote"
    /\ UNCHANGED <<config_vars, solutions, solutions_lock, thread_should_stop,
                   solution_candidates, loop_vars, dfs_vars, reader_vars>>

\* _mutate_solution_candidates, lines 388-392
BfsMerge ==
    /\ pc = "bfs_merge"
    /\ solution_candidates' =
          PSMMerge(solution_candidates,
                   NotInNewSolutions(new_candidates.linear_candidates, new_solutions))
    /\ new_solutions_count' = Len(new_solutions)
    /\ pc' = "bfs_check"
    /\ UNCHANGED <<config_vars, solutions, solutions_lock, thread_should_stop, depth,
                   have_solutions, printed, promote_vars, dfs_vars, reader_vars>>

\* a test of line 407 that does not ask whether any solution was ever found
ConvergedWithoutSolutions(have, count) == count = 0

\* the test of line 407
Converged(have, count) == have /\ count = 0

\* a test of line 411 that lets one generation too many run
DepthPassed(d, max) == max /= 0 /\ d > max

\* the test of line 411
DepthReached(d, max) == max /= 0 /\ d >= max

\* lines 405-413, and line 414 after a break
BfsCheck ==
    /\ pc = "bfs_check"
    /\ have_solutions' = (have_solutions \/ new_solutions_count /= 0)
    /\ IF Converged(have_solutions', new_solutions_count)
       THEN /\ printed' = <<NoMoreSolutions, SearchEnded>>
            /\ pc' = "done"
       ELSE IF DepthReached(depth, max_depth)
       THEN /\ printed' = <<MaxDepthReached, SearchEnded>>
            /\ pc' = "done"
       ELSE /\ pc' = "bfs_while"
            /\ UNCHANGED printed
    /\ UNCHANGED <<config_vars, solutions, solutions_lock, thread_should_stop,
                   solution_candidates, depth, new_solutions_count, promote_vars,
                   dfs_vars, reader_vars>>

BreadthFirst == BfsSeed \/ BfsWhile \/ BfsMutate \/ BfsMerge \/ BfsCheck

PromoteCandidates ==
    \/ Promote
    \/ AddNewSolutionAcquire
    \/ InsertGroup
    \/ InsertLinear
    \/ InsertCount
    \/ AddNewSolutionRelease

(***************************************************************************)
(* _find_solutions_depth_first                                             *)
(***************************************************************************)
\* lines 422-424
DfsBegin ==
    /\ pc = "dfs_begin"
    /\ solution_candidates' = NewPartialSolutionMap
    /\ new_candidates' = NewPartialSolutionMap
    /\ word_idx' = 1
    /\ pc' = "dfs_one_word"
    /\ UNCHANGED <<config_vars, solutions, solutions_lock, thread_should_stop,
                   loop_vars, new_solutions, promote_idx, ret_pc, loop, number,
                   reader_vars>>

\* lines 425-427: the next word that has every game letter becomes a one word
\* candidate and one_word_solutions is promoted; after the last, line 429
DfsOneWord ==
    /\ pc = "dfs_one_word"
    /\ LET num_game_letters == NumGameLetters(game_dictionary)
           words == get_words_with_uniques(game_dictionary, num_game_letters)
       IN IF word_idx <= Len(words)
          THEN /\ new_candidates' =
                     InsertOneWord(new_candidates, words[word_idx])
               /\ new_solutions' = <<>>
               /\ promote_idx' = 1
               /\ ret_pc' = "dfs_one_word"
               /\ word_idx' = word_idx + 1
               /\ pc' = "promote"
               /\ UNCHANGED <<loop, number>>
          ELSE /\ loop' = 0
               /\ number' = num_game_letters - 1
               /\ pc' = "dfs_pass"
               /\ UNCHANGED <<promote_vars, word_idx>>
    /\ UNCHANGED <<config_vars, solutions, solutions_lock, thread_should_stop,
                   solution_candidates, loop_vars, reader_vars>>

\* the test of the for loop of line 429: another meta pass begins
MorePasses(l, num_game_letters) == l < num_game_letters

\* the for loops of lines 429 and 431, and lines 433-435: the words with
\* `number` unique letters become one word candidates
DfsPass ==
    /\ pc = "dfs_pass"
    /\ LET num_game_letters == NumGameLetters(game_dictionary)
       IN IF ~MorePasses(loop, num_game_letters)
          THEN /\ pc' = "done"
               /\ UNCHANGED <<solution_candidates, dfs_vars>>
          ELSE IF number < 1
          THEN /\ loop' = loop + 1
               /\ number' = num_game_letters - 1
               /\ UNCHANGED <<solution_candidates, pc, word_idx>>
          ELSE /\ solution_candidates' =
                     ForEach(InsertOneWord, solution_candidates,
                             get_words_with_uniques(game_dictionary, number))
               /\ word_idx' = 1
               /\ pc' = "dfs_word"
               /\ UNCHANGED <<loop, number>>
    /\ UNCHANGED <<config_vars, solutions, solutions_lock, thread_should_stop,
                   loop_vars, promote_vars, reader_vars>>

\* lines 442-446: the next word with `number` unique letters is added to the
\* candidates and its child candidates are promoted; after the last word the
\* for loop of line 431 goes on
DfsWord ==
    /\ pc = "dfs_word"
    /\ LET words == get_words_with_uniques(game_dictionary, number)
       IN IF word_idx > Len(words)
          THEN /\ number' = number - 1
               /\ pc' = "dfs_pass"
               /\ UNCHANGED promote_vars
          ELSE IF AddWordRaises(solution_candidates, words[word_idx])
          THEN /\ pc' = "dead"
               /\ UNCHANGED <<promote_vars, number>>
          ELSE /\ new_candidates' =
                     add_word_to_solution_candidates(solution_candidates, words[word_idx])
               /\ new_solutions' = <<>>
               /\ promote_idx' = 1
               /\ ret_pc' = "dfs_merge"
               /\ pc' = "promote"
               /\ UNCHANGED number
    /\ UNCHANGED <<config_vars, solutions, solutions_lock, thread_should_stop,
                   solution_candidates, loop_vars, loop, word_idx, reader_vars>>

\* lines 447-451
DfsMerge ==
    /\ pc = "dfs_merge"
    /\ solution_candidates' =
          PSMMerge(solution_candidates,
                   NotInNewSolutions(new_candidates.linear_candidates, new_solutions))
    /\ word_idx' = word_idx + 1
    /\ pc' = "dfs_word"
    /\ UNCHANGED <<config_vars, solutions, solutions_lock, thread_should_stop,
                   loop_vars, promote_vars, loop, number, reader_vars>>

DepthFirst == DfsBegin \/ DfsOneWord \/ DfsPass \/ DfsWord \/ DfsMerge

\* a step of the search, on the thread that runs it
Thread == BreadthFirst \/ DepthFirst \/ PromoteCandidates

(***************************************************************************)
(* The callers' threads                                                    *)
(***************************************************************************)
\* SolutionFinder.solutions_count
SolutionsCount(r) ==
    /\ rpc[r] = "ready"
    /\ ret_count' = [ret_count EXCEPT ![r] = SLLen(solutions)]
    /\ UNCHANGED <<config_vars, solutions, solutions_lock, thread_should_stop,
                   solution_candidates, pc, loop_vars, promote_vars, dfs_vars, rpc,
                   ret_val,
                   main_vars, call>>

\* get_solutions, line 309: with self._solutions_lock
GetSolutionsAcquire(r) ==
    /\ rpc[r] = "ready"
    /\ CanAcquire(solutions_lock)
    /\ solutions_lock' = ReaderThread(r)
    /\ rpc' = [rpc EXCEPT ![r] = "copy"]
    /\ UNCHANGED <<config_vars, solutions, thread_should_stop, solution_candidates,
                   pc, loop_vars, promote_vars, dfs_vars, ret_val, ret_count,
                   main_vars, call>>

\* line 310 without deepcopy: the engine's own SolutionList is returned
NoCopy(sl) == [alias |-> TRUE, val |-> sl]

\* deepcopy(self.solutions): a new object with the contents of the engine's
\* (alias tells whether the object is the engine's own SolutionList)
DeepCopy(sl) == [alias |-> FALSE, val |-> sl]

\* get_solutions, line 310
GetSolutionsCopy(r) ==
    /\ rpc[r] = "copy"
    /\ ret_val' = [ret_val EXCEPT ![r] = <<DeepCopy(solutions)>>]
    /\ rpc' = [rpc EXCEPT ![r] = "return"]
    /\ UNCHANGED <<config_vars, solutions, solutions_lock, thread_should_stop,
                   solution_candidates, pc, loop_vars, promote_vars, dfs_vars,
                   ret_count,
                   main_vars, call>>

\* a get_solutions that returns with the lock still held
GetSolutionsReturnHolding(r) ==
    /\ rpc[r] = "return"
    /\ rpc' = [rpc EXCEPT ![r] = "ready"]
    /\ UNCHANGED <<config_vars, solutions, solutions_lock, thread_should_stop,
                   solution_candidates, pc, loop_vars, promote_vars, dfs_vars,
                   ret_val, ret_count, main_vars, call>>

\* get_solutions, line 311: the with block has ended
GetSolutionsReturn(r) ==
    /\ rpc[r] = "return"
    /\ solutions_lock' = Free
    /\ rpc' = [rpc EXCEPT ![r] = "ready"]
    /\ UNCHANGED <<config_vars, solutions, thread_should_stop, solution_candidates,
                   pc, loop_vars, promote_vars, dfs_vars, ret_val, ret_count,
                   main_vars, call>>

\* what the object a reader was given holds
Contents(r) == IF ret_val[r][1].alias THEN solutions ELSE ret_val[r][1].val

\* the solution a caller puts into the SolutionList it was given
CallerSolution == PartialSolution(<<Aba>>)

\* a caller inserts into the SolutionList get_solutions returned
\* (tests/test_solution_finder.py, test_get_solutions: the copy is the caller's)
CallerInsert(r) ==
    /\ rpc[r] = "ready"
    /\ ret_val[r] /= <<>>
    /\ ~SLContains(Contents(r), CallerSolution)
    /\ IF ret_val[r][1].alias
       THEN /\ solutions' = SLInsert(solutions, CallerSolution)
            /\ UNCHANGED ret_val
       ELSE /\ ret_val' = [ret_val EXCEPT ![r][1].val = SLInsert(@, CallerSolution)]
            /\ UNCHANGED solutions
    /\ UNCHANGED <<config_vars, solutions_lock, thread_should_stop,
                   solution_candidates, pc, loop_vars, promote_vars, dfs_vars, rpc,
                   ret_count,
                   main_vars, call>>

\* stop(join=True), line 283: the flag is set
StopJoin ==
    /\ stop_pc = "ready"
    /\ thread_should_stop' = TRUE
    /\ stop_pc' = "join"
    /\ UNCHANGED <<config_vars, solutions, solutions_lock, solution_candidates, pc,
                   loop_vars, promote_vars, dfs_vars, rpc, ret_val, ret_count,
                   polled, call>>

\* stop(join=True), lines 284-285: self._solver_thread.join(10) is called.
\* Thread.join raises RuntimeError on a thread that was never started, and
\* waits otherwise.
JoinCall ==
    /\ stop_pc = "join"
    /\ stop_pc' = IF Started THEN "joining" ELSE "raised"
    /\ UNCHANGED <<config_vars, solutions, solutions_lock, thread_should_stop,
                   solution_candidates, pc, loop_vars, promote_vars, dfs_vars, rpc,
                   ret_val, ret_count, polled, call>>

\* join(10) returns because the thread has exited, and stop returns
JoinThreadExited ==
    /\ stop_pc = "joining"
    /\ ~running
    /\ stop_pc' = "returned"
    /\ UNCHANGED <<config_vars, solutions, solutions_lock, thread_should_stop,
                   solution_candidates, pc, loop_vars, promote_vars, dfs_vars, rpc,
                   ret_val, ret_count, polled, call>>

\* join(10) returns because ten seconds have gone by with the thread still
\* alive, and stop returns
JoinTimedOut ==
    /\ stop_pc = "joining"
    /\ running
    /\ stop_pc' = "timed_out"
    /\ UNCHANGED <<config_vars, solutions, solutions_lock, thread_should_stop,
                   solution_candidates, pc, loop_vars, promote_vars, dfs_vars, rpc,
                   ret_val, ret_count, polled, call>>

StopAndJoin == StopJoin \/ JoinCall \/ JoinThreadExited \/ JoinTimedOut

\* main (letter_boxed_solver.py), lines 56-70: a round of the while loop in
\* which running() is true and solutions_count() is 0 prints
\* len(solver._solution_candidates.linear_candidates)
MainPoll ==
    /\ running
    /\ SLLen(solutions) = 0
    /\ polled' = <<Len(solution_candidates.linear_candidates)>>
    /\ UNCHANGED <<config_vars, solutions, solutions_lock, thread_should_stop,
                   solution_candidates, pc, loop_vars, promote_vars, dfs_vars, rpc,
                   ret_val, ret_count, stop_pc, call>>

Reader(r) ==
    \/ SolutionsCount(r)
    \/ GetSolutionsAcquire(r)
    \/ GetSolutionsCopy(r)
    \/ GetSolutionsReturn(r)
    \/ CallerInsert(r)

(***************************************************************************)
(* Specifications                                                          *)
(***************************************************************************)
\* the engine and the caller that starts and stops it
EngineNext == Start \/ FindSolutionsBreadthFirst \/ Stop \/ Thread

\* with the callers that read results while the thread runs
Next == EngineNext \/ \E r \in Readers : Reader(r)

Spec == Init /\ [][EngineNext]_vars

SpecReaders == Init /\ [][Next]_vars

\* the engine with a caller of stop(join=True)
SpecJoin == Init /\ [][EngineNext \/ StopAndJoin]_vars

\* the engine with the loop of main that reports progress
SpecMain == Init /\ [][EngineNext \/ MainPoll]_vars

\* the thread that runs the search is scheduled while it can take a step
FairSpec == Spec /\ WF_vars(Thread)

(***************************************************************************)
(* The data structures on their own, as the unit tests use them            *)
(***************************************************************************)
\* the solutions inserted by hand: chains of one, two, two and three words
ListInputs ==
    {PartialSolution(<<Aba>>), PartialSolution(<<Aba, Abcd>>),
     PartialSolution(<<Abcd, Dcd>>), PartialSolution(<<Aba, Adad, Dcd>>)}

\* a SolutionFinder that is never started, over an empty catalog
InitData ==
    /\ Init
    /\ game_dictionary = create(NewGameDictionary(BoxPlain), <<>>)
    /\ max_depth = 0
    /\ strategy = "depth_first"

\* SolutionList.insert, called on a SolutionList with any solution
\* (tests/test_solution_finder.py, TestSolutionList)
ListInsert ==
    /\ solutions.count < MaxInserts
    /\ \E solution \in ListInputs : solutions' = SLInsert(solutions, solution)
    /\ UNCHANGED <<config_vars, solutions_lock, thread_should_stop,
                   solution_candidates, pc, loop_vars, promote_vars, dfs_vars,
                   reader_vars>>

SpecSolutionList == InitData /\ [][ListInsert]_vars

\* the candidates offered by hand: two complete chains and one that is not
OfferedInputs ==
    {PartialSolution(<<Abcd>>), PartialSolution(<<Aba, Abcd>>),
     PartialSolution(<<Aba>>)}

\* the collections offered: PartialSolutionMaps filled by insert
OfferedCollections ==
    {ForEach(PSMInsert, NewPartialSolutionMap, list) :
        list \in SeqsUpTo(OfferedInputs, MaxOffered)}

\* a SolutionFinder that is never started, over the box (a,c),(b,d)
InitPromote ==
    /\ Init
    /\ game_dictionary = create(NewGameDictionary(BoxPlain), <<Aba, Abcd>>)
    /\ max_depth = 0
    /\ strategy = "depth_first"

\* _promote_candidates, called with any collection, lines 359-360
\* (tests/test_solution_finder.py, test__promote_candidates_duplicates)
PromoteCall ==
    /\ pc = "idle"
    /\ new_candidates' \in OfferedCollections
    /\ new_solutions' = <<>>
    /\ promote_idx' = 1
    /\ ret_pc' = "idle"
    /\ pc' = "promote"
    /\ UNCHANGED <<config_vars, solutions, solutions_lock, thread_should_stop,
                   solution_candidates, loop_vars, dfs_vars, reader_vars>>

SpecPromote == InitPromote /\ [][PromoteCall \/ PromoteCandidates]_vars

\* the candidates put into maps by hand: (last letter, unique letters) are
\* (a, 2), (d, 2), (d, 2) and (d, 3)
MapInputs ==
    {PartialSolution(<<Aba>>), PartialSolution(<<Adad>>),
     PartialSolution(<<Dcd>>), PartialSolution(<<Aba, Adad>>)}

\* the collections merged: PartialSolutionMaps filled by insert
MergedCollections ==
    {ForEach(PSMInsert, NewPartialSolutionMap, list) :
        list \in SeqsUpTo(MapInputs, MaxMerged)}

\* PartialSolutionMap.insert, called on a map with any candidate
\* (tests/test_solution_finder.py, TestPartialSolutionMap.test_insert)
MapInsert ==
    /\ solution_candidates.count < MaxMapInserts
    /\ \E candidate \in MapInputs :
          solution_candidates' = PSMInsert(solution_candidates, candidate)
    /\ UNCHANGED <<config_vars, solutions, solutions_lock, thread_should_stop, pc,
                   loop_vars, promote_vars, dfs_vars, reader_vars>>

\* cm1.merge(cm2), with any collection cm2
\* (tests/test_solution_finder.py, test_merge_candidate_map_duplicates)
MapMerge(cm2) ==
    /\ new_candidates' = cm2
    /\ solution_candidates' = PSMMerge(solution_candidates, cm2.linear_candidates)
    /\ UNCHANGED <<config_vars, solutions, solutions_lock, thread_should_stop, pc,
                   loop_vars, new_solutions, promote_idx, ret_pc, dfs_vars,
                   reader_vars>>

SpecMap == InitData /\ [][MapInsert \/ \E cm2 \in MergedCollections : MapMerge(cm2)]_vars

\* the word sequences the PartialSolutions of the direct calls are made of
SequenceInputs == SeqsUpTo(WordUniverse, MaxSequence) \ {<<>>}

\* PartialSolution.clone_and_extend, called on any PartialSolution with any
\* word (tests/test_solution_finder.py, TestPartialSolution). The method
\* assigns to no field of self; it returns a new object or raises ValueError.
CloneAndExtendCall ==
    /\ \E sequence \in SequenceInputs, word \in WordUniverse :
          LET p == PartialSolution(sequence)
              raises == CloneAndExtendRaises(p, word)
          IN call' = <<[op |-> "clone_and_extend",
                        self |-> p,
                        word |-> word,
                        raised |-> raises,
                        ret |-> IF raises THEN <<>> ELSE <<clone_and_extend(p, word)>>,
                        self_after |-> p]>>
    /\ UNCHANGED <<config_vars, solutions, solutions_lock, thread_should_stop,
                   solution_candidates, pc, loop_vars, promote_vars, dfs_vars, rpc,
                   ret_val, ret_count, main_vars>>

SpecPartialSolution == InitData /\ [][CloneAndExtendCall]_vars

\* the keys a PartialSolutionMap is looked up with: letters, counts, a float,
\* and tuples of none, one, two and three of them
MapScalarKeys == {PyStr("a"), PyStr("d"), PyStr("c"), PyInt(2), PyInt(3), PyInt(5), PyFloat}

MapPairItems == {PyStr("a"), PyStr("d"), PyInt(2), PyInt(3), PyFloat}

MapTupleKeys ==
    {PyTuple(<<x, y>>) : x, y \in MapPairItems}
       \cup {PyTuple(<<>>), PyTuple(<<PyStr("d")>>), PyTuple(<<PyFloat>>),
             PyTuple(<<PyStr("d"), PyInt(2), PyStr("a")>>)}

\* PartialSolutionMap.__getitem__, called with any key. The method assigns
\* to no field of self.
MapGetItem ==
    /\ \E lookup \in MapScalarKeys \cup MapTupleKeys :
          LET outcome == PSMGetItem(solution_candidates, lookup)
          IN call' = <<[op |-> "psm_getitem",
                        self |-> solution_candidates,
                        lookup |-> lookup,
                        raised |-> outcome.raised,
                        error |-> outcome.error,
                        ret |-> outcome.ret,
                        self_after |-> solution_candidates]>>
    /\ UNCHANGED <<config_vars, solutions, solutions_lock, thread_should_stop,
                   solution_candidates, pc, loop_vars, promote_vars, dfs_vars, rpc,
                   ret_val, ret_count, main_vars>>

SpecMapLookup == InitData /\ [][MapInsert \/ MapGetItem]_vars

\* the keys a SolutionList is looked up with
ListScalarKeys == {PyStr("a"), PyInt(1), PyInt(2), PyInt(3), PyFloat}

ListPairItems == {PyStr("a"), PyInt(0), PyInt(1), PyInt(2), PyFloat}

ListTupleKeys ==
    {PyTuple(<<x, y>>) : x, y \in ListPairItems}
       \cup {PyTuple(<<>>), PyTuple(<<PyInt(2)>>),
             PyTuple(<<PyInt(2), PyInt(0), PyInt(1)>>)}

\* SolutionList.__getitem__, called with any key. The method assigns to no
\* field of self.
ListGetItem ==
    /\ \E lookup \in ListScalarKeys \cup ListTupleKeys :
          LET outcome == SLGetItem(solutions, lookup)
          IN call' = <<[op |-> "sl_getitem",
                        self |-> solutions,
                        lookup |-> lookup,
                        raised |-> outcome.raised,
                        error |-> outcome.error,
                        ret |-> outcome.ret,
                        self_after |-> solutions]>>
    /\ UNCHANGED <<config_vars, solutions, solutions_lock, thread_should_stop,
                   solution_candidates, pc, loop_vars, promote_vars, dfs_vars, rpc,
                   ret_val, ret_count, main_vars>>

SpecListLookup == InitData /\ [][ListInsert \/ ListGetItem]_vars

\* the words word_is_valid is asked about: of any length up to MaxWordLen,
\* with letters of the boxes and a letter that is on no box
WordInputs == SeqsUpTo({"a", "b", "c", "x"}, MaxWordLen)

\* a dictionary created from any box and any word file
InitCatalog ==
    /\ Init
    /\ max_depth = 0
    /\ strategy = "depth_first"

\* GameDictionary.word_is_valid, called with any word
\* (tests/test_game_dictionary.py, test_word_is_valid_true)
WordIsValidCall ==
    /\ call = <<>>
    /\ \E word \in WordInputs :
          call' = <<[op |-> "word_is_valid",
                     word |-> word,
                     ret |-> word_is_valid(game_dictionary.letter_groups, word)]>>
    /\ UNCHANGED <<config_vars, solutions, solutions_lock, thread_should_stop,
                   solution_candidates, pc, loop_vars, promote_vars, dfs_vars, rpc,
                   ret_val, ret_count, main_vars>>

SpecWordIsValid == InitCatalog /\ [][WordIsValidCall]_vars

(***************************************************************************)
(* The worked example: a box of twelve letters and a catalog of nine       *)
(* words, searched breadth first with no depth limit.                      *)
(***************************************************************************)
Car == <<"c", "a", "r">>
Care == <<"c", "a", "r", "e">>
Cold == <<"c", "o", "l", "d">>
Could == <<"c", "o", "u", "l", "d">>
Dare == <<"d", "a", "r", "e">>
Drain == <<"d", "r", "a", "i", "n">>
End == <<"e", "n", "d">>
Noun == <<"n", "o", "u", "n">>
Nearby == <<"n", "e", "a", "r", "b", "y">>

\* four sides of three letters on which every word of the example is valid
ExampleBox ==
    << <<"a", "b", "l">>, <<"c", "d", "u">>, <<"e", "i", "o">>, <<"n", "r", "y">> >>

ExampleFile == <<Car, Care, Cold, Could, Dare, Drain, End, Noun, Nearby>>

InitExample ==
    /\ game_dictionary = create(NewGameDictionary(ExampleBox), ExampleFile)
    /\ max_depth = 0
    /\ strategy = "breadth_first"
    /\ Constructed

ExampleNext ==
    \/ FindSolutionsBreadthFirst
    \/ Stop
    \/ BreadthFirst
    \/ PromoteCandidates

SpecExample == InitExample /\ [][ExampleNext]_vars

(***************************************************************************)
(* What the properties speak of                                            *)
(***************************************************************************)
\* every PartialSolution the engine holds
Built ==
    Range(solution_candidates.linear_candidates)
    \cup Range(new_candidates.linear_candidates)
    \cup Range(new_solutions)
    \cup Range(solutions.linear_solutions)

\* each word begins with the letter the word before it ends with
Chained(sequence) ==
    \A i \in 1..(Len(sequence) - 1) :
        last_letter(sequence[i]) = first_letter(sequence[i + 1])

NoWordTwice(sequence) ==
    \A i, j \in DOMAIN sequence : i /= j => sequence[i] /= sequence[j]

\* a generation (pass) of the search has ended, or the search is over
AtGenerationBoundary ==
    \/ strategy = "breadth_first" /\ pc \in {"bfs_while", "done"} /\ depth >= 1
    \/ strategy = "depth_first" /\ pc \in {"dfs_pass", "done"}

\* the solver thread is inside SolutionList.insert
InsideInsert == pc \in {"insert_group", "insert_linear", "insert_count"}

\* the breadth first loop has ended by the break of line 410
StoppedByConvergence ==
    /\ strategy = "breadth_first"
    /\ pc = "done"
    /\ printed = <<NoMoreSolutions, SearchEnded>>

\* the words of the catalog
CatalogWords == Range(ordered_by_first_letter(game_dictionary))

\* the letters of the box
BoxLetters == Range(get_letter_candidates(game_dictionary.letter_groups, ""))

\* the chains of k catalog words that repeat no word
RECURSIVE ChainsOfLen(_)
ChainsOfLen(k) ==
    IF k = 1 THEN {<<w>> : w \in CatalogWords}
    ELSE {Append(cw[1], cw[2]) :
            cw \in {x \in ChainsOfLen(k - 1) \X CatalogWords :
                      /\ last_letter(x[1][Len(x[1])]) = first_letter(x[2])
                      /\ ~InList(x[1], x[2])}}

\* the chains of catalog words that cover every letter of the box
CoveringChains(least) ==
    {c \in UNION {ChainsOfLen(k) : k \in least..Cardinality(CatalogWords)} :
        BoxLetters \subseteq PartialSolution(c).unique_letters}

Least(S) == CHOOSE x \in S : \A y \in S : x <= y

\* how often a chain occurs in a list
Occurrences(list, p) ==
    Cardinality({i \in DOMAIN list : PartialSolutionEq(list[i], p)})

SameMultiset(a, b) ==
    /\ Len(a) = Len(b)
    /\ \A i \in DOMAIN a : Occurrences(a, a[i]) = Occurrences(b, a[i])

\* the candidates of a map, as its view by last letter then unique count holds them
ViewByLetter(m) ==
    Flatten([i \in DOMAIN m.candidates_by_uniques_by_last_letter |->
                Flatten(DictValues(m.candidates_by_uniques_by_last_letter[i].val))])

\* the candidates of a map, as its view by unique count then last letter holds them
ViewByUniques(m) ==
    Flatten([i \in DOMAIN m.candidates_by_last_letter_by_uniques |->
                Flatten(DictValues(m.candidates_by_last_letter_by_uniques[i].val))])

\* every candidate is kept under its own last letter and unique count
FiledRight(m) ==
    /\ \A i \in DOMAIN m.candidates_by_uniques_by_last_letter :
          LET by_uniques == m.candidates_by_uniques_by_last_letter[i]
          IN \A j \in DOMAIN by_uniques.val :
                \A p \in Range(by_uniques.val[j].val) :
                    /\ p.last_letter = by_uniques.key
                    /\ Cardinality(p.unique_letters) = by_uniques.val[j].key
    /\ \A i \in DOMAIN m.candidates_by_last_letter_by_uniques :
          LET by_letter == m.candidates_by_last_letter_by_uniques[i]
          IN \A j \in DOMAIN by_letter.val :
                \A p \in Range(by_letter.val[j].val) :
                    /\ Cardinality(p.unique_letters) = by_letter.key
                    /\ p.last_letter = by_letter.val[j].key

\* the candidates of a collection that are neither in `present` nor earlier in
\* the collection, in the order of the collection
NewOnes(present, collection) ==
    LET fresh == {i \in DOMAIN collection :
                    /\ ~InCandidates(present, collection[i])
                    /\ \A j \in 1..(i - 1) :
                          ~PartialSolutionEq(collection[j], collection[i])}
    IN [k \in 1..Cardinality(fresh) |->
          collection[CHOOSE i \in fresh : Cardinality({j \in fresh : j <= i}) = k]]

\* count, the flat list and the groups of a SolutionList tell of the same solutions
Consistent(sl) ==
    /\ sl.count = Len(sl.linear_solutions)
    /\ SameMultiset(SLIter(sl), sl.linear_solutions)

(***************************************************************************)
(* C1: every PartialSolution the engine builds, under either strategy and  *)
(* after any number of generations, is a chain (each word begins with the  *)
(* last letter of the word before it) in which no word occurs twice.       *)
(***************************************************************************)
C1_ChainsAreValid ==
    \A p \in Built : Chained(p.sequence) /\ NoWordTwice(p.sequence)

\* the depth first thread has built a chain of three words
C1_Witness ==
    /\ strategy = "depth_first"
    /\ \E p \in Range(solution_candidates.linear_candidates) : Len(p.sequence) = 3

(***************************************************************************)
(* C2: at every generation boundary, a candidate the engine has formed so  *)
(* far, by seeding or by extending, is in the SolutionIndex if and only if *)
(* it has as many unique letters as the box has letters.                   *)
(***************************************************************************)
C2_PromotedIffComplete ==
    AtGenerationBoundary =>
        \A p \in Built :
            SLContains(solutions, p)
                <=> Cardinality(p.unique_letters) = NumGameLetters(game_dictionary)

(***************************************************************************)
(* C3: when the breadth first search stops by convergence, the shortest    *)
(* chain in the SolutionIndex has as many words as the shortest chain of   *)
(* catalog words, of any length from 1, that covers the box.               *)
(***************************************************************************)
C3_ConvergedOnShortest ==
    StoppedByConvergence =>
        Least({Len(p.sequence) : p \in Range(solutions.linear_solutions)})
            = Least({Len(c) : c \in CoveringChains(1)})

BeginsGeneration ==
    \/ pc = "bfs_while" /\ pc' = "bfs_mutate"
    \/ pc = "dfs_pass" /\ pc' = "dfs_word"

C5_NoGenerationAfterStop == [][thread_should_stop => ~BeginsGeneration]_vars

(***************************************************************************)
(* C6: every snapshot get_solutions() gives a reader is consistent: its    *)
(* count, its flat list and its groups by length tell of the same          *)
(* solutions, however the reader and the inserting thread interleave.      *)
(***************************************************************************)
C6_SnapshotsConsistent ==
    \A r \in Readers : ret_val[r] /= <<>> => Consistent(Contents(r))

\* a reader holds the lock with a copy of one solution or more while the
\* thread waits to insert the next
C6_Witness ==
    \E r \in Readers :
        /\ rpc[r] = "return"
        /\ pc = "add_new_solution"
        /\ Contents(r).count >= 1

(***************************************************************************)
(* C7: get_solutions() returns a copy equal to the engine's SolutionIndex  *)
(* at the time of the call; an insert into the copy leaves the engine's    *)
(* SolutionIndex as it is, and an insert of the engine leaves a copy       *)
(* already returned as it is.                                              *)
(***************************************************************************)
C7_CopyIsEqualAndIndependent ==
    [][\A r \in Readers :
          /\ rpc'[r] = "return" => Contents(r)' = solutions'
          /\ (rpc[r] = "ready" /\ rpc'[r] = "ready" /\ ret_val[r] /= <<>>) =>
                /\ pc' = pc /\ Contents(r)' /= Contents(r) => solutions' = solutions
                /\ pc' /= pc => Contents(r)' = Contents(r)]_vars

\* the caller has put its own solution into a copy of one solution, and the
\* engine, which does not have the caller's, has since inserted another
C7_Witness ==
    \E r \in Readers :
        /\ ret_val[r] /= <<>>
        /\ SLContains(Contents(r), CallerSolution)
        /\ ~SLContains(solutions, CallerSolution)
        /\ Contents(r).count = 2
        /\ solutions.count = 2

(***************************************************************************)
(* C8: solutions_count() never runs while the solver thread is inside an   *)
(* insert into the SolutionIndex (it reads under the solutions lock).      *)
(***************************************************************************)
C8_CountReadOutsideInsert ==
    [][\A r \in Readers : ret_count'[r] /= ret_count[r] => ~InsideInsert]_vars

(***************************************************************************)
(* C9: with no stop request and no maximum depth, the breadth first loop   *)
(* eventually ends, whatever the catalog.                                  *)
(***************************************************************************)
C9_LoopEnds ==
    (pc = "bfs_seed" /\ max_depth = 0) ~> (pc = "done" \/ thread_should_stop)

(***************************************************************************)
(* C10: the breadth first loop stops by convergence at the end of a        *)
(* generation exactly when that generation promoted nothing and an earlier *)
(* one promoted something; a generation that promotes nothing before any   *)
(* solution was found does not end the loop that way.                      *)
(***************************************************************************)
C10_ConvergenceRule ==
    [][(pc = "bfs_check" /\ pc' /= "bfs_check") =>
          ((pc' = "done" /\ printed' = <<NoMoreSolutions, SearchEnded>>)
              <=> (new_solutions = <<>> /\ solutions.linear_solutions /= <<>>))]_vars

\* the first generation to promote was the second, the third promoted
\* nothing, and three generations ran
C10_Witness ==
    /\ StoppedByConvergence
    /\ max_depth = 0
    /\ depth = 3
    /\ Least({Len(p.sequence) : p \in Range(solutions.linear_solutions)}) = 3

(***************************************************************************)
(* C11: with a positive max_depth d the breadth first loop never runs more *)
(* than d generations, and it runs exactly d generations when no solution  *)
(* is found and no stop is requested.                                      *)
(***************************************************************************)
C11_MaxDepthBoundsGenerations ==
    (strategy = "breadth_first" /\ max_depth > 0) =>
        /\ depth <= max_depth
        /\ (pc = "done" /\ ~thread_should_stop /\ solutions.linear_solutions = <<>>)
              => depth = max_depth

\* two generations ran without a solution and the loop ended at max_depth 2
C11_Witness ==
    /\ strategy = "breadth_first"
    /\ max_depth = 2
    /\ depth = 2
    /\ pc = "done"
    /\ ~thread_should_stop
    /\ solutions.linear_solutions = <<>>
    /\ solution_candidates.count >= 2
    /\ printed = <<MaxDepthReached, SearchEnded>>

(***************************************************************************)
(* C12: after any sequence of SolutionList.insert calls, in any order of   *)
(* chain lengths, iterating the SolutionList yields solutions of           *)
(* non-decreasing chain length.                                            *)
(***************************************************************************)
C12_IterationByLength ==
    LET visited == SLIter(solutions)
    IN \A i, j \in DOMAIN visited :
          i < j => Len(visited[i].sequence) <= Len(visited[j].sequence)

\* a chain of three words was inserted first, then one of two, then one of one
C12_Witness ==
    /\ solutions.count = 3
    /\ Len(solutions.linear_solutions[1].sequence) = 3
    /\ Len(solutions.linear_solutions[2].sequence) = 2
    /\ Len(solutions.linear_solutions[3].sequence) = 1
    /\ Len(SLIter(solutions)[1].sequence) = 1

(***************************************************************************)
(* C13: the SolutionIndex never holds two structurally equal chains: a     *)
(* chain that _promote_candidates is offered again, in a later call or     *)
(* twice in one collection, is not inserted again and is not added again   *)
(* to the list of new solutions the call returns.                          *)
(***************************************************************************)
C13_NoChainPromotedTwice ==
    /\ \A p \in Range(solutions.linear_solutions) :
          Occurrences(solutions.linear_solutions, p) = 1
    /\ \A p \in Range(SLIter(solutions)) : Occurrences(SLIter(solutions), p) = 1
    /\ \A p \in Range(new_solutions) : Occurrences(new_solutions, p) = 1

\* a call of _promote_candidates has returned whose collection held the same
\* complete chain twice, and another complete chain that an earlier call had
\* promoted: this call promoted the first once and the other not at all
C13_Witness ==
    /\ pc = "idle"
    /\ Len(new_solutions) = 1
    /\ solutions.count = 2
    /\ Occurrences(new_candidates.linear_candidates, new_solutions[1]) = 2
    /\ \E p \in Range(new_candidates.linear_candidates) :
          /\ ~InCandidates(new_solutions, p)
          /\ SLContains(solutions, p)

(***************************************************************************)
(* C14: after any sequence of insert and merge calls on a                  *)
(* PartialSolutionMap, its two grouped views and its flat list hold the    *)
(* same multiset of candidates, count is the length of the flat list, and  *)
(* every candidate kept under (letter l, count n) has last letter l and n  *)
(* unique letters.                                                         *)
(***************************************************************************)
C14_MapViewsAgree ==
    /\ SameMultiset(ViewByLetter(solution_candidates),
                    solution_candidates.linear_candidates)
    /\ SameMultiset(ViewByUniques(solution_candidates),
                    solution_candidates.linear_candidates)
    /\ solution_candidates.count = Len(solution_candidates.linear_candidates)
    /\ FiledRight(solution_candidates)

\* the map holds one candidate twice and candidates under two last letters
\* and two unique counts, and a collection has been merged into it
C14_Witness ==
    /\ solution_candidates.count >= 4
    /\ new_candidates.count >= 2
    /\ \E p \in Range(solution_candidates.linear_candidates) :
          Occurrences(solution_candidates.linear_candidates, p) = 2
    /\ Len(solution_candidates.candidates_by_uniques_by_last_letter) = 2
    /\ Len(solution_candidates.candidates_by_last_letter_by_uniques) = 2

(***************************************************************************)
(* C15: PartialSolutionMap.merge adds exactly the candidates of the        *)
(* collection that are equal neither to one already present nor to one     *)
(* added earlier in the same merge: a candidate already present does not   *)
(* raise the count, and merging the same collection again changes nothing. *)
(***************************************************************************)
C15_MergeSkipsDuplicates ==
    [][\A cm2 \in MergedCollections :
          MapMerge(cm2) =>
              LET added == NewOnes(solution_candidates.linear_candidates,
                                   cm2.linear_candidates)
              IN /\ solution_candidates'.linear_candidates =
                        solution_candidates.linear_candidates \o added
                 /\ solution_candidates'.count =
                        solution_candidates.count + Len(added)
                 /\ PSMMerge(solution_candidates', cm2.linear_candidates) =
                        solution_candidates']_vars

\* the collection merged last holds a candidate twice; the map holds it once,
\* after a candidate that the collection offers later
C15_Witness ==
    /\ new_candidates.count = 3
    /\ PartialSolutionEq(new_candidates.linear_candidates[1],
                         new_candidates.linear_candidates[2])
    /\ solution_candidates.count = 2
    /\ PartialSolutionEq(solution_candidates.linear_candidates[1],
                         new_candidates.linear_candidates[3])
    /\ PartialSolutionEq(solution_candidates.linear_candidates[2],
                         new_candidates.linear_candidates[1])

\* the chain lengths of the solutions found so far
SolutionLengths == {Len(s.sequence) : s \in Range(SLIter(solutions))}

\* C16: with the box c a r e o l d n u i b y and the catalog car, care, cold,
\* could, dare, drain, end, noun, nearby, the breadth first search holds 9
\* candidates after seeding; 20 candidates and no solution once the first
\* generation is done; the one solution could-drain-nearby once the second is
\* done; and solutions of 3 up to 6 words when a generation adds none.
C16_WorkedExample ==
    /\ (pc = "bfs_while" /\ depth = 0) =>
          /\ solution_candidates.count = 9
          /\ Len(solution_candidates.linear_candidates) = 9
    /\ (pc = "bfs_check" /\ depth = 1) =>
          /\ solution_candidates.count = 20
          /\ Len(solution_candidates.linear_candidates) = 20
          /\ solutions.count = 0
          /\ SLIter(solutions) = <<>>
    /\ (pc = "bfs_check" /\ depth = 2) =>
          /\ solutions.count = 1
          /\ SLIter(solutions) = <<PartialSolution(<<Could, Drain, Nearby>>)>>
    /\ StoppedByConvergence =>
          /\ \A n \in SolutionLengths : 3 <= n /\ n <= 6
          /\ 3 \in SolutionLengths
          /\ 6 \in SolutionLengths

C16_Witness ==
    /\ StoppedByConvergence
    /\ BoxLetters = {"c", "a", "r", "e", "o", "l", "d", "n", "u", "i", "b", "y"}
    /\ CatalogWords = Range(ExampleFile)
    /\ solutions.count = 6

\* C17: the engine goes idle -> running -> stopped. running() is false before
\* start(); start() leads from idle to running and to nothing else; the engine
\* never returns to idle; and once running() is false after start() it is
\* never true again.
C17_IdleRunningStopped ==
    /\ [](~Started => ~running)
    /\ [][(~Started /\ Started') => running']_vars
    /\ [][Started => Started']_vars
    /\ [][(Started /\ ~running) => ~running']_vars

C17_Witness == Started /\ ~running /\ pc = "done"

\* C18: stop(join=true) can be called in any engine state: it sets the stop
\* flag and returns, and it returns only after the background thread has
\* exited or the join timeout has elapsed.
C18_StopJoinReturns ==
    /\ stop_pc /= "raised"
    /\ stop_pc /= "ready" => thread_should_stop
    /\ stop_pc = "returned" => ~running

\* C19: no operation on the caller's thread, the polling loop of main
\* included, reads or writes _solution_candidates.
C19_CandidatesOnlyOnThread == polled = <<>>

\* the solutions of n words, in the order in which insert was given them
InsertedOfLength(sl, n) ==
    LET OfLength(solution) == Len(solution.sequence) = n
    IN SelectSeq(sl.linear_solutions, OfLength)

\* the solutions of n words, in the order in which iteration yields them
IteratedOfLength(sl, n) ==
    LET OfLength(solution) == Len(solution.sequence) = n
    IN SelectSeq(SLIter(sl), OfLength)

\* C20: each length group of a SolutionList holds its solutions in the order
\* in which they were inserted, and iteration yields them in that order,
\* whatever was inserted into other groups in between.
C20_GroupKeepsInsertionOrder ==
    /\ \A i \in DOMAIN solutions.solutions_by_words :
          solutions.solutions_by_words[i].val =
             InsertedOfLength(solutions, solutions.solutions_by_words[i].key)
    /\ \A n \in {Len(s.sequence) : s \in Range(solutions.linear_solutions)} :
          IteratedOfLength(solutions, n) = InsertedOfLength(solutions, n)

\* two different chains of two words, with a chain of another length inserted
\* between them
C20_Witness ==
    /\ solutions.count = 3
    /\ Len(solutions.linear_solutions[1].sequence) = 2
    /\ Len(solutions.linear_solutions[2].sequence) /= 2
    /\ Len(solutions.linear_solutions[3].sequence) = 2
    /\ solutions.linear_solutions[1] /= solutions.linear_solutions[3]
    /\ InsertedOfLength(solutions, 2) =
          <<solutions.linear_solutions[1], solutions.linear_solutions[3]>>

\* C21: after any sequence of inserts, flatten() returns all the solutions by
\* ascending chain length and, among solutions of equal length, in insertion
\* order: the order in which iteration yields them.
C21_FlattenByLengthThenInsertion ==
    LET flat == SLFlatten(solutions)
    IN /\ flat = SLIter(solutions)
       /\ \A i, j \in DOMAIN flat :
             i < j => Len(flat[i].sequence) <= Len(flat[j].sequence)

\* clone_and_extend has been called
Extended == call /= <<>> /\ call[1].op = "clone_and_extend"

\* C22: for a PartialSolution P and a word w that begins with P.last_letter,
\* P.clone_and_extend(w) returns a new PartialSolution whose sequence is P's
\* followed by w, of length len(P) + 1, whose last_letter is the last letter
\* of w and whose unique_letters are those of P and those of w; P is unchanged.
C22_CloneAndExtend ==
    (Extended /\ call[1].self.last_letter = first_letter(call[1].word)) =>
       LET P == call[1].self
           w == call[1].word
       IN /\ ~call[1].raised
          /\ Len(call[1].ret) = 1
          /\ call[1].ret[1].sequence = P.sequence \o <<w>>
          /\ Len(call[1].ret[1].sequence) = Len(P.sequence) + 1
          /\ call[1].ret[1].last_letter = w[Len(w)]
          /\ call[1].ret[1].unique_letters = P.unique_letters \cup Range(w)
          /\ call[1].self_after = P

\* a chain of two words was extended by a word that brings a new letter
C22_Witness ==
    /\ Extended
    /\ ~call[1].raised
    /\ Len(call[1].self.sequence) = 2
    /\ call[1].self.last_letter = first_letter(call[1].word)
    /\ call[1].ret[1].unique_letters /= call[1].self.unique_letters
    /\ call[1].ret[1].unique_letters /= Range(call[1].word)

\* C23: clone_and_extend(w) on a PartialSolution whose last_letter is not the
\* first letter of w fails with the chain-violation error, returns no new
\* PartialSolution and leaves the PartialSolution unchanged.
C23_CloneAndExtendFails ==
    (Extended /\ call[1].self.last_letter /= first_letter(call[1].word)) =>
       /\ call[1].raised
       /\ call[1].ret = <<>>
       /\ call[1].self_after = call[1].self

C23_Witness ==
    /\ Extended
    /\ call[1].self.last_letter /= first_letter(call[1].word)
    /\ call[1].raised
    /\ Len(call[1].self.sequence) = 2

\* PartialSolutionMap.__getitem__ has been called
LookedUp == call /= <<>> /\ call[1].op = "psm_getitem"

\* the candidates of a list with last letter l
WithLastLetter(list, l) ==
    LET Matches(candidate) == candidate.last_letter = l
    IN SelectSeq(list, Matches)

\* the candidates of a list with n unique letters
WithUniques(list, n) ==
    LET Matches(candidate) == Cardinality(candidate.unique_letters) = n
    IN SelectSeq(list, Matches)

\* the key is a pair of a value of type first and a value of type second
IsPairOf(lookup, first, second) ==
    /\ lookup.type = "tuple"
    /\ Len(lookup.items) = 2
    /\ lookup.items[1].type = first
    /\ lookup.items[2].type = second

\* C24: a lookup by letter returns all and only the inserted candidates with
\* that last letter; a lookup by count all and only those with that many
\* unique letters; a lookup by (letter, count) and by (count, letter) the same
\* list, of the candidates that match both; a lookup that matches nothing
\* returns an empty list; and no lookup changes the map.
C24_LookupsReturnMatches ==
    LookedUp =>
       LET m == call[1].self
           lookup == call[1].lookup
           inserted == m.linear_candidates
       IN /\ call[1].self_after = m
          /\ lookup.type = "str" =>
                /\ ~call[1].raised
                /\ SameMultiset(call[1].ret[1], WithLastLetter(inserted, lookup.s))
          /\ lookup.type = "int" =>
                /\ ~call[1].raised
                /\ SameMultiset(call[1].ret[1], WithUniques(inserted, lookup.n))
          /\ IsPairOf(lookup, "str", "int") =>
                /\ ~call[1].raised
                /\ call[1].ret[1] =
                      WithUniques(WithLastLetter(inserted, lookup.items[1].s),
                                  lookup.items[2].n)
                /\ call[1].ret =
                      PSMGetItem(m, PyTuple(<<lookup.items[2], lookup.items[1]>>)).ret
          /\ IsPairOf(lookup, "int", "str") =>
                /\ ~call[1].raised
                /\ call[1].ret[1] =
                      WithUniques(WithLastLetter(inserted, lookup.items[2].s),
                                  lookup.items[1].n)
                /\ call[1].ret =
                      PSMGetItem(m, PyTuple(<<lookup.items[2], lookup.items[1]>>)).ret

\* the map holds candidates that end in d with two and with three unique
\* letters, and the lookup (2, "d") returned the one with two
C24_Witness ==
    /\ LookedUp
    /\ call[1].self.count = 2
    /\ Len(WithLastLetter(call[1].self.linear_candidates, "d")) = 2
    /\ call[1].lookup = PyTuple(<<PyInt(2), PyStr("d")>>)
    /\ Len(call[1].ret[1]) = 1

\* the position of the first candidate of a list that equals p
FirstAt(list, p) ==
    CHOOSE i \in DOMAIN list :
       /\ PartialSolutionEq(list[i], p)
       /\ \A j \in 1..(i - 1) : ~PartialSolutionEq(list[j], p)

\* what iteration yields after the step, past what it yielded before it
IterAdded ==
    SubSeq(PSMIter(solution_candidates'), Len(PSMIter(solution_candidates)) + 1,
           Len(PSMIter(solution_candidates')))

\* C25: iterating a PartialSolutionMap yields its candidates in insertion
\* order and its length is the number of candidates inserted: an insert puts
\* its candidate last and raises the length by one. A merge keeps what was
\* there, in place, and puts after it the candidates of its source that are
\* not duplicates, in the order of the source.
C25_IterationInInsertionOrder ==
    /\ [](PSMLen(solution_candidates) = Len(PSMIter(solution_candidates)))
    /\ [][MapInsert =>
             /\ Len(IterAdded) = 1
             /\ IterAdded[1] \in MapInputs
             /\ PSMIter(solution_candidates') =
                   PSMIter(solution_candidates) \o IterAdded
             /\ PSMLen(solution_candidates') = PSMLen(solution_candidates) + 1]_vars
    /\ [][\A cm2 \in MergedCollections :
             MapMerge(cm2) =>
                LET before == PSMIter(solution_candidates)
                    after == PSMIter(solution_candidates')
                    source == PSMIter(cm2)
                IN /\ Len(after) >= Len(before)
                   /\ SubSeq(after, 1, Len(before)) = before
                   /\ \A i \in DOMAIN IterAdded :
                         /\ InCandidates(source, IterAdded[i])
                         /\ ~InCandidates(before, IterAdded[i])
                   /\ \A i, j \in DOMAIN IterAdded :
                         i < j => FirstAt(source, IterAdded[i]) <
                                     FirstAt(source, IterAdded[j])
                   /\ \A i \in DOMAIN source : InCandidates(after, source[i])]_vars

\* a collection of three candidates was merged into a map of two: the one it
\* shares with the map was skipped, the other two follow in its order
C25_Witness ==
    /\ PSMLen(solution_candidates) = 4
    /\ PSMLen(new_candidates) = 3
    /\ InCandidates(SubSeq(PSMIter(solution_candidates), 1, 2),
                    PSMIter(new_candidates)[2])
    /\ PSMIter(solution_candidates)[3] = PSMIter(new_candidates)[1]
    /\ PSMIter(solution_candidates)[4] = PSMIter(new_candidates)[3]

\* __getitem__ of either class has been called
GotItem == call /= <<>> /\ call[1].op \in {"psm_getitem", "sl_getitem"}

\* the key is one that the class supports: for a PartialSolutionMap a letter,
\* a count, or a pair of a letter and a count in either order; for a
\* SolutionList a word count, or a pair of a word count and a position
SupportedKey(op, lookup) ==
    IF op = "psm_getitem"
    THEN \/ lookup.type \in {"str", "int"}
         \/ IsPairOf(lookup, "str", "int")
         \/ IsPairOf(lookup, "int", "str")
    ELSE \/ lookup.type = "int"
         \/ IsPairOf(lookup, "int", "int")

\* C26: a lookup on a PartialSolutionMap or a SolutionList with a key of an
\* unsupported shape fails with a lookup error and leaves the index unchanged.
C26_UnsupportedKeyFails ==
    (GotItem /\ ~SupportedKey(call[1].op, call[1].lookup)) =>
       /\ call[1].raised
       /\ call[1].error \in LookupErrors
       /\ call[1].ret = <<>>
       /\ call[1].self_after = call[1].self

\* the letter is on a side of the box
OnBox(letter_groups, letter) ==
    \E i \in DOMAIN letter_groups : InGroup(letter, letter_groups[i])

\* a side of the box holds both letters
OnSameSide(letter_groups, x, y) ==
    \E i \in DOMAIN letter_groups :
       InGroup(x, letter_groups[i]) /\ InGroup(y, letter_groups[i])

\* rules (a) and (b) of the puzzle: only letters of the box, and no two
\* consecutive letters from the same side
FollowsRules(letter_groups, word) ==
    /\ \A i \in DOMAIN word : OnBox(letter_groups, word[i])
    /\ \A i \in 1..(Len(word) - 1) : ~OnSameSide(letter_groups, word[i], word[i + 1])

\* C27: word_is_valid(w) is true if and only if w has at least 3 letters,
\* every letter of w is on the box and no two consecutive letters of w are on
\* the same side; so every word of the catalog follows rules (a) and (b).
C27_ValidIffRules ==
    /\ (call /= <<>> /\ call[1].op = "word_is_valid") =>
          (call[1].ret <=>
              /\ Len(call[1].word) >= 3
              /\ FollowsRules(game_dictionary.letter_groups, call[1].word))
    /\ \A word \in CatalogWords : FollowsRules(game_dictionary.letter_groups, word)

\* C28: a promoted chain is excluded from further expansion: at every
\* generation boundary, in the generation that promoted it and in every later
\* one, no chain of the SolutionIndex is in the engine's candidate index.
C28_PromotedNotExpanded ==
    AtGenerationBoundary =>
        \A p \in Range(solution_candidates.linear_candidates) :
            ~SLContains(solutions, p)

\* C29: the same chain is never tracked twice: at every generation (pass)
\* boundary, under either search strategy and for any catalog, the engine's
\* candidate index holds no two structurally equal candidates.
C29_NoCandidateTwice ==
    AtGenerationBoundary =>
        \A i, j \in DOMAIN solution_candidates.linear_candidates :
            i /= j => ~PartialSolutionEq(solution_candidates.linear_candidates[i],
                                         solution_candidates.linear_candidates[j])

\* the chains P + w of a candidate P of the list and a catalog word w that
\* begins with the last letter of P and is not in P
ExtensionsOf(list) ==
    UNION {{PartialSolution(Append(list[i].sequence, w)) :
               w \in {v \in CatalogWords :
                         /\ first_letter(v) = list[i].last_letter
                         /\ \A k \in DOMAIN list[i].sequence :
                               list[i].sequence[k] /= v}} :
           i \in DOMAIN list}

\* C30: a breadth first generation is exhaustive. When its results are merged,
\* every chain P + w, of a candidate P that was in the index when the
\* generation began and a catalog word w that begins with the last letter of
\* P and is not in P, is in the candidate index or in the SolutionIndex; and
\* every chain the generation added to either is such a chain.
C30_GenerationIsExhaustive ==
    [][BfsMerge =>
          LET before == solution_candidates.linear_candidates
              after == solution_candidates'.linear_candidates
              extensions == ExtensionsOf(before)
          IN /\ \A chain \in extensions :
                   InCandidates(after, chain) \/ SLContains(solutions', chain)
             /\ SubSeq(after, 1, Len(before)) = before
             /\ \A i \in (Len(before) + 1)..Len(after) : after[i] \in extensions
             /\ \A i \in DOMAIN new_solutions : new_solutions[i] \in extensions]_vars

\* a generation has ended that began with several candidates, promoted one of
\* their extensions and kept another as a candidate
C30_Witness ==
    /\ strategy = "breadth_first"
    /\ pc = "bfs_check"
    /\ Len(new_solutions) >= 1
    /\ Len(new_candidates.linear_candidates) > Len(new_solutions)
    /\ \E i \in DOMAIN new_candidates.linear_candidates :
          /\ ~InCandidates(new_solutions, new_candidates.linear_candidates[i])
          /\ InCandidates(solution_candidates.linear_candidates,
                          new_candidates.linear_candidates[i])

\* C31: the threshold _promote_candidates compares the number of unique
\* letters with is the number of distinct letters of the box, also when a
\* letter is on more than one side; hence a chain whose letters cover the box
\* is promoted: the depth first search, which offers every chain it forms,
\* holds no covering chain at a pass boundary that is not a solution.
C31_ThresholdIsDistinctLetters ==
    /\ pc = "promote" =>
          NumGameLetters(game_dictionary) = Cardinality(BoxLetters)
    /\ (strategy = "depth_first" /\ pc = "done") =>
          \A p \in Built : p.unique_letters = BoxLetters => SLContains(solutions, p)


\* C32: the breadth first loop consults the stop flag only at a generation
\* boundary.  Once the flag is set no further generation begins (depth never
\* grows again, and stays 0 when the flag was set before the loop started);
\* a generation that has begun is carried through its promotions and its
\* merge, for the loop is left only from the test of the while or from the
\* tests that follow the merge; and at the test of the while a set flag ends
\* the search.
C32_StopOnlyAtGenerationBoundary ==
    [][strategy = "breadth_first" =>
          /\ thread_should_stop => depth' = depth
          /\ (pc /= "done" /\ pc' = "done") => pc \in {"bfs_while", "bfs_check"}
          /\ (pc \in {"bfs_mutate", "promote", "add_new_solution", "insert_group", "insert_linear", "insert_count", "add_new_solution_release", "bfs_merge"}
                /\ pc' /= pc) =>
                pc' \in {"promote", "add_new_solution", "bfs_merge", "bfs_check",
                         "insert_group", "insert_linear", "insert_count", "add_new_solution_release"}
          /\ (pc = "bfs_while" /\ thread_should_stop /\ pc' /= pc) =>
                pc' = "done" /\ printed' = <<SearchEnded>>]_vars

\* the flag, set during the second generation, has ended the search after it
C32_StoppedAfterSecondGeneration ==
    /\ strategy = "breadth_first"
    /\ thread_should_stop
    /\ pc = "done"
    /\ depth = 2
    /\ printed = <<SearchEnded>>
    /\ \E p \in Range(solution_candidates.linear_candidates) : Len(p.sequence) = 2


\* C33: the ValueError of clone_and_extend is out of the engine's reach: in
\* every state of either strategy, every candidate the engine would extend by
\* a word of the catalog ends in the letter the word begins with, so that no
\* call of _add_word_to_solution_candidates raises and the solver thread
\* never dies of it.
C33_ChainErrorUnreachable ==
    /\ pc /= "dead"
    /\ \A word \in Range(ordered_by_first_letter(game_dictionary)) :
          /\ ~AddWordRaises(solution_candidates, word)
          /\ \A p \in Range(CandidatesFor(solution_candidates, word)) :
                p.last_letter = first_letter(word)

\* a generation has extended a candidate of two words by a third
C33_ExtendedTwice ==
    /\ pc = "promote"
    /\ \E p \in Range(new_candidates.linear_candidates) :
          /\ Len(p.sequence) = 3
          /\ \A i \in 1..2 : last_letter(p.sequence[i]) = first_letter(p.sequence[i + 1])


(***************************************************************************)
(* _mutate_solution_candidates called by hand, generation after            *)
(* generation, on a finder that is never started                           *)
(* (tests/test_solution_finder.py, test__mutate_solution_candidates).      *)
(* depth counts the calls made; pc = "bfs_check" is the caller between two *)
(* calls.                                                                  *)
(***************************************************************************)
InitGenerations ==
    /\ Init
    /\ max_depth = 0
    /\ strategy = "breadth_first"

\* sf._solution_candidates = sf._seed_candidates()
SeedCandidatesCall ==
    /\ pc = "idle"
    /\ solution_candidates' = seed_candidates(game_dictionary)
    /\ pc' = "bfs_check"
    /\ UNCHANGED <<config_vars, solutions, solutions_lock, thread_should_stop,
                   loop_vars, promote_vars, dfs_vars, reader_vars>>

\* sf._mutate_solution_candidates(), once more
MutateCall ==
    /\ pc = "bfs_check"
    /\ depth < MaxGenerations
    /\ depth' = depth + 1
    /\ pc' = "bfs_mutate"
    /\ UNCHANGED <<config_vars, solutions, solutions_lock, thread_should_stop,
                   solution_candidates, have_solutions, new_solutions_count,
                   printed, promote_vars, dfs_vars, reader_vars>>

SpecGenerations ==
    InitGenerations
    /\ [][SeedCandidatesCall \/ MutateCall \/ BfsMutate \/ PromoteCandidates
            \/ BfsMerge]_vars

\* C34: the generations reach a fixpoint: for a catalog of N distinct words,
\* no generation after the N-th changes the number of candidates the index
\* holds.
C34_FixpointAfterNGenerations ==
    [][(/\ BfsMerge
        /\ NoWordTwice(ordered_by_first_letter(game_dictionary))
        /\ depth > Len(ordered_by_first_letter(game_dictionary))) =>
          PSMLen(solution_candidates') = PSMLen(solution_candidates)]_vars


\* the list s is the beginning of the list t
IsPrefix(s, t) == Len(s) <= Len(t) /\ SubSeq(t, 1, Len(s)) = s

\* the candidates a map files under a last letter and a number of unique letters
GroupOf(m, letter, n) ==
    DictGet(DictGet(m.candidates_by_uniques_by_last_letter, letter, <<>>), n, <<>>)

\* C35: a generation removes and reorders nothing the candidate index holds:
\* over any number of calls of _mutate_solution_candidates, every step leaves
\* each candidate at its position of the flat list and of its group, so that
\* the number of candidates never falls.
C35_GenerationKeepsCandidates ==
    [][/\ IsPrefix(solution_candidates.linear_candidates,
                   solution_candidates'.linear_candidates)
       /\ PSMLen(solution_candidates') >= PSMLen(solution_candidates)
       /\ \A letter \in BoxLetters, n \in 1..Cardinality(BoxLetters) :
             IsPrefix(GroupOf(solution_candidates, letter, n),
                      GroupOf(solution_candidates', letter, n))]_vars

\* a later generation has put a chain of three words behind the candidates
\* it found
C35_LaterGenerationMerged ==
    /\ pc = "bfs_check"
    /\ depth >= 2
    /\ new_candidates.count >= 1
    /\ \E i \in DOMAIN solution_candidates.linear_candidates :
          /\ Len(solution_candidates.linear_candidates[i].sequence) = 3
          /\ \A j \in 1..(i - 1) :
                Len(solution_candidates.linear_candidates[j].sequence) < 3


\* C36: the solutions only grow: no step removes, replaces or moves a
\* solution of the flat list or of a group; the numbers solutions_count()
\* gives a caller never fall; and every solution the finder had put in the
\* snapshot a caller holds is in the next snapshot get_solutions() gives it.
C36_SolutionsOnlyGrow ==
    [][/\ IsPrefix(solutions.linear_solutions, solutions'.linear_solutions)
       /\ SLLen(solutions') >= SLLen(solutions)
       /\ \A i \in DOMAIN solutions.solutions_by_words :
             IsPrefix(solutions.solutions_by_words[i].val,
                      DictGet(solutions'.solutions_by_words,
                              solutions.solutions_by_words[i].key, <<>>))
       /\ \A r \in Readers :
             /\ ret_count'[r] >= ret_count[r]
             /\ (ret_val[r] /= <<>> /\ ret_val'[r] /= ret_val[r]) =>
                   \A s \in Range(SLFlatten(Contents(r))) \ {CallerSolution} :
                      SLContains(Contents(r)', s)]_vars

\* a caller that was told of one solution holds a later snapshot with two
C36_SnapshotAfterCount ==
    \E r \in Readers :
        /\ ret_count[r] = 1
        /\ ret_val[r] /= <<>>
        /\ SLLen(Contents(r)) = 2
        /\ ~ret_val[r][1].alias


\* every solution filed under key k has k words
KeyedByLength(sl) ==
    \A i \in DOMAIN sl.solutions_by_words :
        \A j \in DOMAIN sl.solutions_by_words[i].val :
            Len(sl.solutions_by_words[i].val[j].sequence) = sl.solutions_by_words[i].key

\* C37: after any sequence of inserts into a SolutionList the groups and the
\* flat list hold the same solutions as often as each other, count is the
\* length of the flat list, every solution under key k has k words, and `in`
\* is true of exactly the chains equal to an inserted one: of the chains the
\* groups hold, of every chain it was true of before, and of no chain beyond
\* these that the insert has not added.
C37_ListViewsAgree ==
    /\ [](/\ SameMultiset(SLIter(solutions), SLFlatten(solutions))
          /\ SLLen(solutions) = Len(SLFlatten(solutions))
          /\ KeyedByLength(solutions)
          /\ \A q \in ListInputs :
                SLContains(solutions, q) <=> InCandidates(SLIter(solutions), q))
    /\ [][\A q \in ListInputs :
             SLContains(solutions', q) <=>
                \/ SLContains(solutions, q)
                \/ Occurrences(SLIter(solutions'), q) > Occurrences(SLIter(solutions), q)]_vars

\* four inserts, one solution twice, into groups of three lengths
C37_InsertedTwice ==
    /\ SLLen(solutions) = MaxInserts
    /\ Len(solutions.solutions_by_words) = 3
    /\ \E q \in ListInputs : Occurrences(SLFlatten(solutions), q) = 2
    /\ \E q \in ListInputs : ~SLContains(solutions, q)


(***************************************************************************)
(* The search and callers of get_solutions(), with the scheduling the      *)
(* threads and the lock give: a thread inside a with block is scheduled    *)
(* and goes on to the end of the block, and the solver thread blocked in   *)
(* acquire() gets the lock when the lock is released again and again.      *)
(* Whether and when a caller calls get_solutions() is left open.           *)
(***************************************************************************)
GetSolutions(r) ==
    GetSolutionsAcquire(r) \/ GetSolutionsCopy(r) \/ GetSolutionsReturn(r)

LockNext ==
    Start \/ FindSolutionsBreadthFirst \/ Thread \/ \E r \in Readers : GetSolutions(r)

FairSpecLock ==
    /\ Init
    /\ [][LockNext]_vars
    /\ WF_vars(InsertGroup \/ InsertLinear \/ InsertCount \/ AddNewSolutionRelease)
    /\ SF_vars(AddNewSolutionAcquire)
    /\ \A r \in Readers : WF_vars(GetSolutionsCopy(r) \/ GetSolutionsReturn(r))

\* the threads inside a with self._solutions_lock block
LockHolders ==
    (IF pc \in {"insert_group", "insert_linear", "insert_count",
                "add_new_solution_release"}
     THEN {SolverThread} ELSE {})
    \cup {ReaderThread(r) : r \in {q \in Readers : rpc[q] \in {"copy", "return"}}}

C39_StopFlagSticky ==
    /\ ~thread_should_stop
    /\ [][/\ thread_should_stop => thread_should_stop'
          /\ (~thread_should_stop /\ thread_should_stop') =>
                pc' = pc /\ rpc' = rpc /\ solutions' = solutions]_vars

\* stop() came before the breadth first search began: the search ended
\* without a generation, the flag still set after a get_solutions()
C39_StoppedBeforeStart ==
    /\ strategy = "breadth_first"
    /\ thread_should_stop
    /\ pc = "done"
    /\ depth = 0
    /\ \E r \in Readers : ret_val[r] /= <<>> /\ rpc[r] = "ready"

====
